---- MODULE Spec2Model ----
(***************************************************************************)
(* A model of obj-to-js-array.cpp: objToJs (the attribute blocks, the face *)
(* scan, the vertex cache) and sortZX.                                     *)
(*                                                                         *)
(* Text is modelled character by character: a line is a sequence of        *)
(* one-character strings, and a stream is read with std::getline's rules.  *)
(* A double is modelled by the natural number its digits spell.           *)
(***************************************************************************)
EXTENDS Integers, Sequences, FiniteSets, TLC

\* ------------------------------------------------------------------ text

\* unsigned int arithmetic wraps. TLC's integers have 32 bits, so the width
\* is scaled to 16 bits: 0 - 1 wraps to the largest value all the same, and
\* no input of the model spells a number that large.
UIntMod == 65536

Whitespace == {" "}

IsDigit(c) == c \in {"0", "1", "2", "3", "4", "5", "6", "7", "8", "9"}

DigitVal(c) ==
    CASE c = "0" -> 0 [] c = "1" -> 1 [] c = "2" -> 2 [] c = "3" -> 3
      [] c = "4" -> 4 [] c = "5" -> 5 [] c = "6" -> 6 [] c = "7" -> 7
      [] c = "8" -> 8 [] c = "9" -> 9

\* std::getline(ss, item, delim) on the unread characters ss of a string
\* stream: the item is what precedes the first delim (or the rest), ...
RECURSIVE GetlineItem(_, _)
GetlineItem(ss, delim) ==
    IF ss = <<>> \/ Head(ss) = delim THEN <<>>
    ELSE <<Head(ss)>> \o GetlineItem(Tail(ss), delim)

\* ... and what stays unread is what follows that delim.
RECURSIVE GetlineRest(_, _)
GetlineRest(ss, delim) ==
    IF ss = <<>> THEN <<>>
    ELSE IF Head(ss) = delim THEN Tail(ss)
    ELSE GetlineRest(Tail(ss), delim)

\* The digits an istream's operator>> reads for a number: the longest run
\* of digits at the front of the item.
RECURSIVE DigitRun(_)
DigitRun(item) ==
    IF item = <<>> \/ ~IsDigit(Head(item)) THEN <<>>
    ELSE <<Head(item)>> \o DigitRun(Tail(item))

RECURSIVE DigitsValue(_, _)
DigitsValue(ds, acc) ==
    IF ds = <<>> THEN acc ELSE DigitsValue(Tail(ds), 10 * acc + DigitVal(Head(ds)))

RECURSIVE SkipWs(_)
SkipWs(item) ==
    IF item = <<>> \/ Head(item) \notin Whitespace THEN item ELSE SkipWs(Tail(item))

RECURSIVE Word(_)
Word(item) ==
    IF item = <<>> \/ Head(item) \in Whitespace THEN <<>>
    ELSE <<Head(item)>> \o Word(Tail(item))

\* conv >> out[count] for T = double, unsigned int and std::string: whether
\* the extraction succeeds and the value it stores (a failed numeric
\* extraction stores 0, a failed string extraction the empty string).
Convert(kind, item) ==
    LET body == SkipWs(item) IN
    CASE kind = "double" ->
           IF DigitRun(body) = <<>> THEN [ok |-> FALSE, val |-> 0]
           ELSE [ok |-> TRUE, val |-> DigitsValue(DigitRun(body), 0)]
      [] kind = "uint" ->
           IF DigitRun(body) = <<>> THEN [ok |-> FALSE, val |-> 0]
           ELSE [ok |-> TRUE, val |-> DigitsValue(DigitRun(body), 0) % UIntMod]
      [] kind = "string" ->
           IF Word(body) = <<>> THEN [ok |-> FALSE, val |-> <<>>]
           ELSE [ok |-> TRUE, val |-> Word(body)]

\* The counting loop of tokenize: out is the caller's array (1-based here),
\* of which only the first count entries are written.
RECURSIVE TokenLoop(_, _, _, _, _, _, _)
TokenLoop(out, ss, count, maxTokens, delim, sentinel, kind) ==
    IF count >= maxTokens \/ ss = <<>> THEN [count |-> count, out |-> out]
    ELSE LET item == GetlineItem(ss, delim)
             rest == GetlineRest(ss, delim)
         IN  IF Len(item) = 0
             THEN TokenLoop([out EXCEPT ![count + 1] = sentinel], rest,
                            count + 1, maxTokens, delim, sentinel, kind)
             ELSE LET c == Convert(kind, item) IN
                  IF ~c.ok
                  THEN [count |-> -1, out |-> [out EXCEPT ![count + 1] = c.val]]
                  ELSE TokenLoop([out EXCEPT ![count + 1] = c.val], rest,
                                 count + 1, maxTokens, delim, sentinel, kind)

\* tokenize<T>(out, line, maxTokens, skipFirst, delim, sentinel)
Tokenize(out, line, maxTokens, skipFirst, delim, sentinel, kind) ==
    TokenLoop(out, IF skipFirst THEN GetlineRest(line, delim) ELSE line,
              0, maxTokens, delim, sentinel, kind)

\* ---------------------------------------------------------------- input

\* The lines a file of the model is made of.
PosLine == <<"v", " ", "1", " ", "0", " ", "2">>
TexLine == <<"v", "t", " ", "3", " ", "4">>
NormLine == <<"v", "n", " ", "5", " ", "6", " ", "7">>
BadPosLine == <<"v", " ", "x">>
BlankLine == <<>>
CommentLine == <<"#", "c">>
GroupLine == <<"g", " ", "x">>

\* Face-vertex descriptors, as text.
D1 == <<"1">>
D1s == <<"1", "/">>
D2 == <<"2">>
D0 == <<"0">>
Dx == <<"x">>
D21 == <<"2", "/", "1">>
D1n1 == <<"1", "/", "/", "1">>
D111 == <<"1", "/", "1", "/", "1">>

RECURSIVE FaceLine(_)
FaceLine(ds) ==
    IF ds = <<>> THEN <<"f">> ELSE FaceLine(SubSeq(ds, 1, Len(ds) - 1)) \o <<" ">> \o ds[Len(ds)]

\* The descriptor lists of the face lines: two triangles, a quad, a line of
\* two and a line of five descriptors, a line with an empty field (two
\* spaces), and a line with position 0 and a descriptor that is no number.
FaceDescs ==
    { <<D1, D2, D1s>>, <<D111, D2, D1n1>>,
      <<D1n1, D21, D1s, D111>>,
      <<D1, D2>>, <<D1, D2, D1s, D1n1, D21>>,
      <<D1, <<>>, D2, D1>>, <<D0, Dx, D1>> }

FaceLines == { FaceLine(ds) : ds \in FaceDescs }

MaxFaces == 2
MaxPositions == 2

\* The kind of a line, by which the model bounds a file.
LineKind(l) ==
    IF l # <<>> /\ Head(l) = "f" THEN "f"
    ELSE IF l = PosLine THEN "v"
    ELSE IF l = TexLine THEN "vt"
    ELSE IF l = NormLine THEN "vn"
    ELSE "misc"

LineCap == [f |-> MaxFaces, v |-> MaxPositions, vt |-> 1, vn |-> 1]

\* The files of the model: a bounded number of lines of each attribute kind,
\* the kinds in the order v, vt, vn, then the face lines and nothing else;
\* blank, comment and other lines may stand anywhere before the first face.
MayFollow(counts, l) ==
    LET k == LineKind(l) IN
    /\ k # "misc" => counts[k] < LineCap[k]
    /\ k # "f" => counts["f"] = 0
    /\ k = "v" => counts["vt"] = 0 /\ counts["vn"] = 0
    /\ k = "vt" => counts["vn"] = 0

InputLines ==
    FaceLines \cup {PosLine, TexLine, NormLine, BadPosLine, BlankLine, CommentLine, GroupLine}

\* The number of descriptors a face line holds: its non-empty fields after
\* the leading "f".
RECURSIVE CountFields(_)
CountFields(ss) ==
    IF ss = <<>> THEN 0
    ELSE (IF GetlineItem(ss, " ") = <<>> THEN 0 ELSE 1) + CountFields(GetlineRest(ss, " "))

NumDescriptors(l) == CountFields(GetlineRest(l, " "))

\* ---------------------------------------------------------------- state

VARIABLES
    pc,             \* the statement objToJs / sortZX is at
    result,         \* what objToJs returned, and the message it printed
    eofbit,         \* in.eof()
    failbit,        \* in.fail()
    fed,            \* history: how many lines of each kind the file had so far
    line,           \* std::string line (the lookahead)
    phase,          \* which attribute block parseVertexAttribute is called for
    ret,            \* what parseVertexAttribute returned
    values,         \* double values[D] of parseVertexAttribute
    positions,
    texcoords,
    normals,
    disableTexture,
    disableNormal,
    vertices,       \* std::string vertices[4]
    triangles,      \* std::string* triangles[6], as slots of vertices
    locations,      \* unsigned int locations[3]
    indexCache,
    deg,
    vertexCount,
    i,
    cur,            \* the locals pos, tex, norm of one loop body
    vertexData,
    elementData,
    hist,           \* history: what was scanned and built, for the properties
    sortedData,     \* sortZX: the indexed copy
    mapping,        \* sortZX: old index -> new index
    before          \* history: sortZX's arguments as it was called

vars ==
    <<pc, result, eofbit, failbit, fed, line, phase, ret, values, positions,
      texcoords, normals, disableTexture, disableNormal, vertices, triangles,
      locations, indexCache, deg, vertexCount, i, cur, vertexData, elementData,
      hist, sortedData, mapping, before>>

streamVars == <<eofbit, failbit, fed, line>>
attrVars == <<phase, ret, values, positions, texcoords, normals>>
flagVars == <<disableTexture, disableNormal>>
faceVars == <<vertices, triangles, deg, vertexCount>>
sortVars == <<sortedData, mapping, before>>

\* An uninitialised or out-of-bounds double: no number a file spells.
Indet == -1
IndetVec3 == [x |-> Indet, y |-> Indet, z |-> Indet]
IndetVec2 == [x |-> Indet, y |-> Indet]

\* What an uninitialised unsigned int may hold: among others no reference
\* and a reference that looks valid.
GarbageUInt == {0, 1}

EmptyCache == [d \in {} |-> 0]
NoLocals == [pos |-> IndetVec3, tex |-> IndetVec2, norm |-> IndetVec3]
NoHist == [occ |-> <<>>, built |-> <<>>, oob |-> FALSE, accepted |-> <<>>]

Init ==
    /\ pc = "attr_body"
    /\ result = "running"
    /\ eofbit = FALSE
    /\ failbit = FALSE
    /\ fed = [k \in DOMAIN LineCap |-> 0]
    /\ line = <<>>
    /\ phase = "v"
    /\ ret = TRUE
    /\ values = <<Indet, Indet, Indet>>
    /\ positions = <<>>
    /\ texcoords = <<>>
    /\ normals = <<>>
    /\ disableTexture \in BOOLEAN
    /\ disableNormal \in BOOLEAN
    /\ vertices = <<<<>>, <<>>, <<>>, <<>>>>
    /\ triangles = <<0, 0, 0, 0, 0, 0>>
    /\ locations = <<0, 0, 0>>
    /\ indexCache = EmptyCache
    /\ deg = 0
    /\ vertexCount = 0
    /\ i = 0
    /\ cur = NoLocals
    /\ vertexData = <<>>
    /\ elementData = <<>>
    /\ hist = NoHist
    /\ sortedData = <<>>
    /\ mapping = <<>>
    /\ before = [data |-> <<>>, indices |-> <<>>]

\* ------------------------------------------------------------- getline

\* std::getline(in, str) reads a line: the last line of a file that does
\* not end with a newline sets eofbit as it is read.
GetlineReads(l, last, nextPc) ==
    /\ ~eofbit /\ ~failbit
    /\ MayFollow(fed, l)
    /\ last => l # <<>>
    /\ line' = l
    /\ eofbit' = last
    /\ fed' = IF LineKind(l) = "misc" THEN fed ELSE [fed EXCEPT ![LineKind(l)] = @ + 1]
    /\ pc' = nextPc
    /\ UNCHANGED failbit

\* std::getline(in, str) at the end of the file: it fails; the string is
\* erased unless eofbit was set already.
GetlineFails(nextPc) ==
    /\ line' = IF eofbit THEN line ELSE <<>>
    /\ eofbit' = TRUE
    /\ failbit' = TRUE
    /\ pc' = nextPc
    /\ UNCHANGED fed

\* ------------------------------------------------ parseVertexAttribute

PhaseType(ph) == CASE ph = "v" -> " " [] ph = "vt" -> "t" [] ph = "vn" -> "n"
PhaseDim(ph) == IF ph = "vt" THEN 2 ELSE 3

IsBlankOrComment(l) == IF Len(l) < 2 THEN TRUE ELSE l[1] = "#"
HasPrefix(l, category, type) == l[1] = category /\ l[2] = type

MakeVec(dim, vals) ==
    IF dim = 2 THEN [x |-> vals[1], y |-> vals[2]]
    ELSE [x |-> vals[1], y |-> vals[2], z |-> vals[3]]

AttrSkip ==
    /\ pc = "attr_body"
    /\ IsBlankOrComment(line)
    /\ pc' = "attr_getline"
    /\ UNCHANGED <<result, streamVars, attrVars, flagVars, faceVars, locations,
                   indexCache, i, cur, vertexData, elementData, hist, sortVars>>

AttrBreak ==
    /\ pc = "attr_body"
    /\ ~IsBlankOrComment(line)
    /\ ~HasPrefix(line, "v", PhaseType(phase))
    /\ ret' = TRUE
    /\ pc' = "attr_check"
    /\ UNCHANGED <<result, streamVars, phase, values, positions, texcoords, normals,
                   flagVars, faceVars, locations, indexCache, i, cur, vertexData,
                   elementData, hist, sortVars>>

AttrParse ==
    /\ pc = "attr_body"
    /\ ~IsBlankOrComment(line)
    /\ HasPrefix(line, "v", PhaseType(phase))
    /\ LET tok == Tokenize(values, line, 3, TRUE, " ", 0, "double")
           v == MakeVec(PhaseDim(phase), tok.out)
       IN  /\ values' = tok.out
           /\ IF tok.count <= 0
              THEN /\ ret' = FALSE
                   /\ pc' = "attr_check"
                   /\ UNCHANGED <<positions, texcoords, normals>>
              ELSE /\ pc' = "attr_getline"
                   /\ positions' = IF phase = "v" THEN Append(positions, v) ELSE positions
                   /\ texcoords' = IF phase = "vt" THEN Append(texcoords, v) ELSE texcoords
                   /\ normals' = IF phase = "vn" THEN Append(normals, v) ELSE normals
                   /\ UNCHANGED ret
    /\ UNCHANGED <<result, streamVars, phase, flagVars, faceVars, locations,
                   indexCache, i, cur, vertexData, elementData, hist, sortVars>>

AttrGetline ==
    /\ pc = "attr_getline"
    /\ \/ \E l \in InputLines, last \in BOOLEAN : GetlineReads(l, last, "attr_body")
       \/ GetlineFails("attr_check")
    /\ ret' = TRUE
    /\ UNCHANGED <<result, phase, values, positions, texcoords, normals, flagVars,
                   faceVars, locations, indexCache, i, cur, vertexData, elementData,
                   hist, sortVars>>

\* objToJs's checks after each block.
Fail(msg) == pc' = "done" /\ result' = msg

AttrCheck ==
    /\ pc = "attr_check"
    /\ IF ~ret THEN Fail("malformed_attribute") /\ UNCHANGED <<phase, values>>
       ELSE IF phase = "v" /\ Len(positions) = 0
            THEN Fail("no_positions") /\ UNCHANGED <<phase, values>>
       ELSE IF eofbit THEN Fail("unexpected_eof") /\ UNCHANGED <<phase, values>>
       ELSE /\ UNCHANGED result
            /\ values' = IF phase = "v" THEN <<Indet, Indet>> ELSE <<Indet, Indet, Indet>>
            /\ phase' = (CASE phase = "v" -> "vt" [] phase = "vt" -> "vn" [] phase = "vn" -> "faces")
            /\ pc' = IF phase = "vn" THEN "declare" ELSE "attr_body"
    /\ UNCHANGED <<streamVars, ret, positions, texcoords, normals, flagVars, faceVars,
                   locations, indexCache, i, cur, vertexData, elementData, hist, sortVars>>

\* ------------------------------------------------------------- objToJs

\* The declarations before the face loop: locations is not initialised.
Declare ==
    /\ pc = "declare"
    /\ locations' \in [1..3 -> GarbageUInt]
    /\ indexCache' = EmptyCache
    /\ pc' = "face_body"
    /\ UNCHANGED <<result, streamVars, attrVars, flagVars, faceVars, i, cur,
                   vertexData, elementData, hist, sortVars>>

IsFaceLine(l) == IF Len(l) < 2 THEN FALSE ELSE l[1] = "f"

FaceSkip ==
    /\ pc = "face_body"
    /\ ~IsFaceLine(line)
    /\ pc' = "face_getline"
    /\ UNCHANGED <<result, streamVars, attrVars, flagVars, faceVars, locations,
                   indexCache, i, cur, vertexData, elementData, hist, sortVars>>

\* int deg = tokenize(vertices, line, 4)
FaceDegree(verts, l) == Tokenize(verts, l, 4, TRUE, " ", <<>>, "string")

DegreeOk(d) == d = 3 \/ d = 4

\* The slots of vertices the triangles of a face point at.
Triangulate(tris, d) ==
    IF d = 4 THEN <<1, 2, 3, 1, 3, 4>>
    ELSE <<1, 2, 3, tris[4], tris[5], tris[6]>>

FaceBody ==
    /\ pc = "face_body"
    /\ IsFaceLine(line)
    /\ LET tok == FaceDegree(vertices, line) IN
       /\ vertices' = tok.out
       /\ deg' = tok.count
       /\ IF ~DegreeOk(tok.count)
          THEN /\ Fail("face_degree")
               /\ UNCHANGED <<triangles, vertexCount, i, hist>>
          ELSE /\ triangles' = Triangulate(triangles, tok.count)
               /\ vertexCount' = IF tok.count = 4 THEN 6 ELSE 3
               /\ i' = 0
               /\ hist' = [hist EXCEPT !.accepted = Append(@, NumDescriptors(line))]
               /\ pc' = "vert_find"
               /\ UNCHANGED result
    /\ UNCHANGED <<streamVars, attrVars, flagVars, locations, indexCache, cur,
                   vertexData, elementData, sortVars>>

\* const std::string& v = *(triangles[i])
CurrentVertex == vertices[triangles[i + 1]]

\* A cache that is never hit.
CacheNeverHit(cache, v) == FALSE

\* indexCache.find(v) != indexCache.end()
CacheHit(cache, v) == v \in DOMAIN cache

CachePut(cache, v, n) == [d \in DOMAIN cache \cup {v} |-> IF d = v THEN n ELSE cache[d]]

\* ++i and the loop test of the for statement
NextVertex ==
    /\ i' = i + 1
    /\ pc' = IF i + 1 < vertexCount THEN "vert_find" ELSE "face_getline"

VertHit ==
    /\ pc = "vert_find"
    /\ CacheHit(indexCache, CurrentVertex)
    /\ elementData' = Append(elementData, indexCache[CurrentVertex])
    /\ hist' = [hist EXCEPT !.occ = Append(@, CurrentVertex)]
    /\ NextVertex
    /\ UNCHANGED <<result, streamVars, attrVars, flagVars, faceVars, locations,
                   indexCache, cur, vertexData, sortVars>>

\* int attrs = tokenize(locations, v, 3, false, '/')
VertexLocations(locs, v) == Tokenize(locs, v, 3, FALSE, "/", 0, "uint")

VertMiss ==
    /\ pc = "vert_find"
    /\ ~CacheHit(indexCache, CurrentVertex)
    /\ LET tok == VertexLocations(locations, CurrentVertex) IN
       /\ locations' = tok.out
       /\ IF tok.count <= 0
          THEN Fail("malformed_vertex")
          ELSE pc' = "vert_resolve" /\ UNCHANGED result
    /\ UNCHANGED <<streamVars, attrVars, flagVars, faceVars, indexCache, i, cur,
                   vertexData, elementData, hist, sortVars>>

\* arr[loc - 1], loc an unsigned int: inside the vector it reads the entry;
\* outside it the behaviour is undefined, and the build either reads
\* whatever is there or stops the program.
ReadAt(arr, loc, indet) ==
    LET idx == (loc - 1) % UIntMod IN
    IF idx < Len(arr)
    THEN {[val |-> arr[idx + 1], oob |-> FALSE, crash |-> FALSE]}
    ELSE {[val |-> indet, oob |-> TRUE, crash |-> c] : c \in BOOLEAN}

\* The optional reads: if (loc > 0) x = arr[loc - 1], else x stays
\* uninitialised.
ReadIfPresent(arr, loc, indet) ==
    IF loc > 0 THEN ReadAt(arr, loc, indet)
    ELSE {[val |-> indet, oob |-> FALSE, crash |-> FALSE]}

VertResolve ==
    /\ pc = "vert_resolve"
    /\ \E p \in ReadAt(positions, locations[1], IndetVec3),
          t \in ReadIfPresent(texcoords, locations[2], IndetVec2),
          n \in ReadIfPresent(normals, locations[3], IndetVec3) :
          /\ cur' = [pos |-> p.val, tex |-> t.val, norm |-> n.val]
          /\ hist' = [hist EXCEPT !.oob = @ \/ p.oob \/ t.oob \/ n.oob]
          /\ pc' = IF p.crash \/ t.crash \/ n.crash THEN "crashed" ELSE "push_element"
    /\ UNCHANGED <<result, streamVars, attrVars, flagVars, faceVars, locations,
                   indexCache, i, vertexData, elementData, sortVars>>

\* elementData.push_back(vertexData.size())
PushElement ==
    /\ pc = "push_element"
    /\ elementData' = Append(elementData, Len(vertexData))
    /\ hist' = [hist EXCEPT !.occ = Append(@, CurrentVertex)]
    /\ pc' = "cache_store"
    /\ UNCHANGED <<result, streamVars, attrVars, flagVars, faceVars, locations,
                   indexCache, i, cur, vertexData, sortVars>>

\* indexCache[v] = vertexData.size()
CacheStore ==
    /\ pc = "cache_store"
    /\ indexCache' = CachePut(indexCache, CurrentVertex, Len(vertexData))
    /\ pc' = "push_vertex"
    /\ UNCHANGED <<result, streamVars, attrVars, flagVars, faceVars, locations,
                   i, cur, vertexData, elementData, hist, sortVars>>

\* {!disableNormal, !disableTexture, pos, norm, tex}
MakeVertex(noTexture, noNormal, locals) ==
    [hasNorm |-> ~noNormal, hasUV |-> ~noTexture,
     p |-> locals.pos, n |-> locals.norm, t |-> locals.tex]

PushVertex ==
    /\ pc = "push_vertex"
    /\ vertexData' = Append(vertexData, MakeVertex(disableTexture, disableNormal, cur))
    /\ hist' = [hist EXCEPT !.built = Append(@, [desc |-> CurrentVertex, loc |-> locations])]
    /\ cur' = NoLocals
    /\ NextVertex
    /\ UNCHANGED <<result, streamVars, attrVars, flagVars, faceVars, locations,
                   indexCache, elementData, sortVars>>

FaceGetline ==
    /\ pc = "face_getline"
    /\ \/ /\ \E l \in InputLines, last \in BOOLEAN : GetlineReads(l, last, "face_body")
          /\ UNCHANGED result
       \/ /\ GetlineFails("done")
          /\ result' = "ok"
    /\ UNCHANGED <<attrVars, flagVars, faceVars, locations, indexCache, i, cur,
                   vertexData, elementData, hist, sortVars>>

Next ==
    \/ AttrSkip \/ AttrBreak \/ AttrParse \/ AttrGetline \/ AttrCheck
    \/ Declare
    \/ FaceSkip \/ FaceBody
    \/ VertHit \/ VertMiss \/ VertResolve \/ PushElement \/ CacheStore \/ PushVertex
    \/ FaceGetline

Spec == Init /\ [][Next]_vars

\* -------------------------------------------------------------- sortZX

\* Coordinates are counted in steps of half the tolerance of isEqual
\* (1e-10), so that two coordinates one step apart are "equal" to it and
\* two coordinates two steps apart are not.
Tolerance == 2

Abs(a) == IF a < 0 THEN -a ELSE a

\* auto isEqual = [](double a, double b) { return std::abs(a - b) < 1e-10; }
IsEqual(a, b) == Abs(a - b) < Tolerance

\* A comparator that forgets the tie-break.
ZLessOnly(p1, p2) == p1.z < p2.z

\* The comparator handed to std::sort, on two positions.
ZXLess(p1, p2) == p1.z < p2.z \/ (IsEqual(p1.z, p2.z) /\ p1.x < p2.x)

PairLess(v1, v2) == ZXLess(v1.second.p, v2.second.p)

\* Whether the comparator is a strict weak ordering on the elements of sd,
\* which std::sort requires.
IsStrictWeak(sd) ==
    LET I == DOMAIN sd
        Lt(a, b) == PairLess(sd[a], sd[b])
        Eq(a, b) == ~Lt(a, b) /\ ~Lt(b, a)
    IN  /\ \A a \in I : ~Lt(a, a)
        /\ \A a, b \in I : Lt(a, b) => ~Lt(b, a)
        /\ \A a, b, c \in I : Lt(a, b) /\ Lt(b, c) => Lt(a, c)
        /\ \A a, b, c \in I : Eq(a, b) /\ Eq(b, c) => Eq(a, c)

Bijections(n) == {f \in [1..n -> 1..n] : \A a, b \in 1..n : f[a] = f[b] => a = b}

IsSortedBy(sd) == \A a, b \in DOMAIN sd : a < b => ~PairLess(sd[b], sd[a])

\* std::sort(first, last, comp): with a strict weak ordering the range ends
\* sorted by it, equivalent elements in any order; with any other comparator
\* the behaviour is undefined, and the elements end in whatever order the
\* implementation's moves leave them.
SortOutcomes(sd) ==
    LET arranged == {[k \in DOMAIN sd |-> sd[f[k]]] : f \in Bijections(Len(sd))}
    IN  IF IsStrictWeak(sd) THEN {r \in arranged : IsSortedBy(r)} ELSE arranged

\* for (i = 0; i < N; ++i) sortedData[i] = std::make_pair(i, data[i])
IndexedCopy(data) == [k \in DOMAIN data |-> [first |-> k - 1, second |-> data[k]]]

\* A mapping built the wrong way round: mapping[i] = sortedData[i].first.
RECURSIVE BuildMappingInverse(_, _, _)
BuildMappingInverse(m, sd, k) ==
    IF k > Len(sd) THEN m
    ELSE BuildMappingInverse([m EXCEPT ![k] = sd[k].first], sd, k + 1)

\* for (i = 0; i < N; ++i) mapping[sortedData[i].first] = i, from a mapping
\* of N zeros
RECURSIVE BuildMapping(_, _, _)
BuildMapping(m, sd, k) ==
    IF k > Len(sd) THEN m
    ELSE BuildMapping([m EXCEPT ![sd[k].first + 1] = k - 1], sd, k + 1)

\* for (unsigned int& i : indices) i = mapping[i]
Remap(m, indices) == [k \in DOMAIN indices |-> m[indices[k] + 1]]

parseVars ==
    <<result, streamVars, attrVars, flagVars, faceVars, locations, indexCache, i,
      cur, hist>>

SortCopy ==
    /\ pc = "sort_copy"
    /\ sortedData' = IndexedCopy(vertexData)
    /\ pc' = "sort_sort"
    /\ UNCHANGED <<parseVars, vertexData, elementData, mapping, before>>

SortSort ==
    /\ pc = "sort_sort"
    /\ sortedData' \in SortOutcomes(sortedData)
    /\ pc' = "sort_map"
    /\ UNCHANGED <<parseVars, vertexData, elementData, mapping, before>>

SortMap ==
    /\ pc = "sort_map"
    /\ mapping' = BuildMapping([k \in DOMAIN sortedData |-> 0], sortedData, 1)
    /\ vertexData' = [k \in DOMAIN sortedData |-> sortedData[k].second]
    /\ pc' = "sort_remap"
    /\ UNCHANGED <<parseVars, elementData, sortedData, before>>

SortRemap ==
    /\ pc = "sort_remap"
    /\ elementData' = Remap(mapping, elementData)
    /\ pc' = "sort_done"
    /\ UNCHANGED <<parseVars, vertexData, sortedData, mapping, before>>

SortNext == SortCopy \/ SortSort \/ SortMap \/ SortRemap

\* The buffers sortZX is called with: up to MaxVerts vertices on a grid of
\* positions, and one triangle over them.
MaxVerts == 3
MaxZ == 2
XValues == {0, 1}

SortVertex(x, z, k) ==
    [hasNorm |-> TRUE, hasUV |-> TRUE, p |-> [x |-> x, y |-> 0, z |-> z],
     n |-> IndetVec3, t |-> [x |-> k % 2, y |-> 0]]

SortBuffers ==
    UNION { { [k \in 1..n |-> SortVertex(xs[k], zs[k], k)] :
                xs \in [1..n -> XValues], zs \in [1..n -> 0..MaxZ] } : n \in 1..MaxVerts }

SortIndices(n) == { [k \in 1..3 |-> (k + r) % n] : r \in 0..(n - 1) }

SortInit ==
    /\ pc = "sort_copy"
    /\ result = "ok"
    /\ eofbit = TRUE
    /\ failbit = TRUE
    /\ fed = [k \in DOMAIN LineCap |-> 0]
    /\ line = <<>>
    /\ phase = "faces"
    /\ ret = TRUE
    /\ values = <<Indet, Indet, Indet>>
    /\ positions = <<>>
    /\ texcoords = <<>>
    /\ normals = <<>>
    /\ disableTexture = FALSE
    /\ disableNormal = FALSE
    /\ vertices = <<<<>>, <<>>, <<>>, <<>>>>
    /\ triangles = <<0, 0, 0, 0, 0, 0>>
    /\ locations = <<0, 0, 0>>
    /\ indexCache = EmptyCache
    /\ deg = 0
    /\ vertexCount = 0
    /\ i = 0
    /\ cur = NoLocals
    /\ vertexData \in SortBuffers
    /\ elementData \in SortIndices(Len(vertexData))
    /\ hist = NoHist
    /\ sortedData = <<>>
    /\ mapping = <<>>
    /\ before = [data |-> vertexData, indices |-> elementData]

SortSpec == SortInit /\ [][SortNext]_vars

\* ------------------------------------------------------------ properties

\* The indices a descriptor itself holds, an absent field being 0.
OwnLocations(d) == Tokenize(<<0, 0, 0>>, d, 3, FALSE, "/", 0, "uint").out

\* Whether the run read no array outside its bounds so far. The properties
\* below that are not about such reads are stated of these runs, so that
\* what refutes them is a run whose every step is defined.
Defined == ~hist.oob

\* C1: every value in elementData is less than the length of vertexData, in
\* every state of the face scan, the states between the statements that
\* enter a new vertex included.
IndicesAlwaysInBounds ==
    Defined => \A k \in DOMAIN elementData : elementData[k] < Len(vertexData)

\* C2: no vertex is built from a descriptor whose own position, texcoord or
\* normal index lies outside 1..len of its array: objToJs fails with an
\* out-of-range error instead of reading there.
InRange(loc, arr) == loc >= 1 /\ loc <= Len(arr)

OutOfRangeIsRejected ==
    \A k \in DOMAIN hist.built :
        LET own == OwnLocations(hist.built[k].desc) IN
        /\ InRange(own[1], positions)
        /\ own[2] # 0 => InRange(own[2], texcoords)
        /\ own[3] # 0 => InRange(own[3], normals)

\* C3: the vertex buffer holds one entry per distinct descriptor string, in
\* first-seen order, every occurrence of a descriptor contributes the index
\* of its entry, and so the buffer is no longer than the list of
\* occurrences, and as long exactly when no descriptor repeats.
FirstAt(occ, d) == CHOOSE k \in DOMAIN occ : occ[k] = d /\ \A j \in 1..(k - 1) : occ[j] # d

SeenBefore(occ, d) == {occ[j] : j \in 1..(FirstAt(occ, d) - 1)}

EnteringVertex == pc \in {"cache_store", "push_vertex"}

OneVertexPerDescriptor ==
    LET occ == hist.occ
        distinct == {occ[k] : k \in DOMAIN occ}
        entered == IF EnteringVertex THEN distinct \ {CurrentVertex} ELSE distinct
    IN  /\ Len(elementData) = Len(occ)
        /\ \A k \in DOMAIN occ : elementData[k] = Cardinality(SeenBefore(occ, occ[k]))
        /\ Len(hist.built) = Len(vertexData)
        /\ \A k \in DOMAIN vertexData :
               /\ hist.built[k].desc \in distinct
               /\ Cardinality(SeenBefore(occ, hist.built[k].desc)) = k - 1
        /\ pc # "push_vertex" => DOMAIN indexCache = entered
        /\ \A d \in DOMAIN indexCache : indexCache[d] = Cardinality(SeenBefore(occ, d))
        /\ Len(vertexData) = Cardinality(entered)
        /\ ~EnteringVertex =>
               /\ Len(vertexData) <= Len(occ)
               /\ Len(vertexData) = Len(occ) <=> Cardinality(distinct) = Len(occ)

\* C3's case: a conversion that succeeded on two face lines with descriptors
\* that repeat, within a line and from one line to the next.
DescriptorsRepeated ==
    /\ pc = "done" /\ result = "ok"
    /\ Len(hist.accepted) = 2
    /\ Len(vertexData) >= 3
    /\ Len(vertexData) < Len(hist.occ)
    /\ \E a \in 1..3, b \in DOMAIN hist.occ : b > 3 /\ hist.occ[a] = hist.occ[b]

\* C4: after a successful conversion elementData holds three indices for
\* every face line of three descriptors and six for every face line of
\* four, and nothing else.
CountOf(seq, n) == Cardinality({k \in DOMAIN seq : seq[k] = n})

IndexCountMatchesFaces ==
    Defined /\ pc = "done" /\ result = "ok" =>
        Len(elementData) = 3 * CountOf(hist.accepted, 3) + 6 * CountOf(hist.accepted, 4)

\* Beside C4: once a face line is scanned, the descriptors it contributed are
\* a, b, c of a line that passed as a triangle and a, b, c, a, c, d of a line
\* that passed as a quad, in that order.
FanOrder(v, d) ==
    IF d = 4 THEN <<v[1], v[2], v[3], v[1], v[3], v[4]>> ELSE <<v[1], v[2], v[3]>>

TrianglesInFanOrder ==
    pc = "face_getline" /\ IsFaceLine(line) =>
        LET n == Len(hist.occ) IN
        /\ n >= vertexCount
        /\ SubSeq(hist.occ, n - vertexCount + 1, n) = FanOrder(vertices, deg)
        /\ vertexCount = 3 * (deg - 2)

\* C5: a face line passes the degree check only with three or four
\* descriptors: a line with fewer or more is rejected, and contributes no
\* index.
FaceDegreeIsChecked ==
    Defined => \A k \in DOMAIN hist.accepted : hist.accepted[k] \in {3, 4}

\* C6: a vertex has hasUV exactly when texture is not disabled and its
\* descriptor holds a texcoord reference, and hasNorm exactly when normals
\* are not disabled and its descriptor holds a normal reference.
FlagsFollowDescriptor ==
    Defined => \A k \in DOMAIN hist.built :
        LET own == OwnLocations(hist.built[k].desc) IN
        /\ vertexData[k].hasUV = (~disableTexture /\ own[2] # 0)
        /\ vertexData[k].hasNorm = (~disableNormal /\ own[3] # 0)

\* C7: after sortZX every index points at the vertex content it pointed at
\* before, and the vertex buffer is a rearrangement of the one before.
IsRearrangement(a, b) ==
    /\ Len(a) = Len(b)
    /\ \E f \in Bijections(Len(a)) : \A k \in DOMAIN a : a[k] = b[f[k]]

SortPreservesTriangles ==
    pc = "sort_done" =>
        /\ Len(elementData) = Len(before.indices)
        /\ \A k \in DOMAIN elementData :
               vertexData[elementData[k] + 1] = before.data[before.indices[k] + 1]
        /\ IsRearrangement(vertexData, before.data)

\* C7's case: a sort that moved vertices and rewrote indices.
SortMovedVertices ==
    /\ pc = "sort_done"
    /\ Len(vertexData) = 3
    /\ vertexData # before.data
    /\ elementData # before.indices

\* C8, as stated: after sortZX the buffer is in ascending z order, and any
\* two vertices whose z differ by less than the tolerance are in ascending x
\* order, whatever the order before.
AscendingZ(data) == \A a, b \in DOMAIN data : a < b => data[a].p.z <= data[b].p.z

NearZAscendingX(data) ==
    \A a, b \in DOMAIN data :
        a < b /\ IsEqual(data[a].p.z, data[b].p.z) => data[a].p.x <= data[b].p.x

Conflicting(v, w) == v.p.z < w.p.z /\ w.p.z - v.p.z < Tolerance /\ w.p.x < v.p.x

NoConflict(data) == \A a, b \in DOMAIN data : ~Conflicting(data[a], data[b])

WellFormedFaceLine(l) ==
    /\ IsFaceLine(l)
    /\ LET tok == FaceDegree(<<<<>>, <<>>, <<>>, <<>>>>, l) IN
       /\ tok.count \in {3, 4}
       /\ NumDescriptors(l) = tok.count
       /\ \A k \in 1..tok.count :
              LET own == OwnLocations(tok.out[k]) IN
              /\ VertexLocations(<<0, 0, 0>>, tok.out[k]).count >= 1
              /\ InRange(own[1], positions)
              /\ own[2] # 0 => InRange(own[2], texcoords)
              /\ own[3] # 0 => InRange(own[3], normals)

\* C9: objToJs fails with the unexpected-end-of-file error only when the
\* file ended with no face line after the attribute blocks: never with a
\* well-formed face line read as the lookahead.
EofOnlyWithoutFaceLine == result = "unexpected_eof" => ~WellFormedFaceLine(line)

\* C10: the texcoord and normal indices a vertex is built with are those of
\* its own descriptor, 0 for a field the descriptor does not hold.
AbsentFieldsAreZero ==
    Defined => \A k \in DOMAIN hist.built :
        LET own == OwnLocations(hist.built[k].desc) IN
        /\ hist.built[k].loc[2] = own[2]
        /\ hist.built[k].loc[3] = own[3]

====
